---- MODULE Spec2Model ----
(***************************************************************************)
(* Model of the admin panel HTTP handlers of chancity-2023/gitback:        *)
(*   backend/app/routers/admin.py     (login, registrations, stats)        *)
(*   backend/app/routers/settings.py  (registration_open flag in a file)   *)
(* One action per request handler.  The remote document store and the      *)
(* filesystem are the environment: every call into them either succeeds    *)
(* or raises, chosen nondeterministically.                                 *)
(***************************************************************************)
EXTENDS Integers, Sequences, FiniteSets, TLC

VARIABLES file, docs, loggedIn, calls, resp, inflight

vars == <<file, docs, loggedIn, calls, resp, inflight>>

(***************************************************************************)
(* Bounds of the model.                                                    *)
(***************************************************************************)
MaxPage == 3
MaxCount == 2

(***************************************************************************)
(* Python strings are sequences of characters; str.lower() and the `in`    *)
(* substring test are computed on them.                                    *)
(***************************************************************************)
UpperToLower ==
  [c \in {"S", "T", "H", "N", "F", "D", "E", "I", "R"} |->
     CASE c = "S" -> "s" [] c = "T" -> "t" [] c = "H" -> "h"
       [] c = "N" -> "n" [] c = "F" -> "f" [] c = "D" -> "d"
       [] c = "E" -> "e" [] c = "I" -> "i" [] c = "R" -> "r"]

Lower(s) ==
  [i \in 1..Len(s) |-> IF s[i] \in DOMAIN UpperToLower THEN UpperToLower[s[i]] ELSE s[i]]

Contains(sub, s) ==
  \E i \in 1..(Len(s) - Len(sub) + 1) : SubSeq(s, i, i + Len(sub) - 1) = sub

StrSearch == <<"s","e","a","r","c","h">>
StrNotFound == <<"n","o","t"," ","f","o","u","n","d">>
Str404 == <<"4","0","4">>

(***************************************************************************)
(* The settings file.  st is what the filesystem holds at SETTINGS_FILE:   *)
(* no file, a file that cannot be opened for reading, text that is not     *)
(* JSON (an empty or truncated file included), or a JSON document.  A JSON *)
(* document has a type ty; an object either has the registration_open key  *)
(* (has) with the JSON literal v, or lacks it.                             *)
(***************************************************************************)
JsonLiterals == {"true", "false", "null", "0", "1", "2", "'no'", "'yes'", "'maybe'"}

JsonObject(has, v) == [ty |-> "object", has |-> has, v |-> v]
JsonOther(ty) == [ty |-> ty, has |-> FALSE, v |-> "-"]

JsonValues ==
  {JsonObject(TRUE, v) : v \in JsonLiterals}
    \cup {JsonObject(FALSE, "-")}
    \cup {JsonOther(ty) : ty \in {"array", "null", "number", "string"}}

FileAbsent == [st |-> "absent", json |-> JsonOther("-")]
FileUnreadable == [st |-> "unreadable", json |-> JsonOther("-")]
FileCorrupt == [st |-> "corrupt", json |-> JsonOther("-")]
FileJson(j) == [st |-> "json", json |-> j]

FileStates == {FileAbsent, FileUnreadable, FileCorrupt} \cup {FileJson(j) : j \in JsonValues}

DEFAULT_SETTINGS == JsonObject(TRUE, "true")

\* load_settings: the parsed document when the file exists and parses,
\* a copy of the defaults when it is absent or reading/parsing raises.
load_settings(f) == IF f.st = "json" THEN f.json ELSE DEFAULT_SETTINGS

\* current_settings.get("registration_open", True): raises AttributeError
\* on anything that is not a dict.
DictGet(d) ==
  IF d.ty # "object" THEN [raised |-> TRUE, v |-> "-"]
  ELSE [raised |-> FALSE, v |-> IF d.has THEN d.v ELSE "true"]

\* current_settings["registration_open"] = value: raises TypeError on
\* anything that is not a dict.
DictSet(d, v) ==
  IF d.ty # "object" THEN [raised |-> TRUE, d |-> d]
  ELSE [raised |-> FALSE, d |-> JsonObject(TRUE, v)]

\* SettingsResponse(registration_open=v): the bool field accepts booleans
\* and the values the validator coerces (0, 1, "no", "yes"); anything else
\* raises a validation error.
SettingsResponse(v) ==
  CASE v \in {"true", "1", "'yes'"} -> [raised |-> FALSE, open |-> TRUE]
    [] v \in {"false", "0", "'no'"} -> [raised |-> FALSE, open |-> FALSE]
    [] OTHER -> [raised |-> TRUE, open |-> TRUE]

\* save_settings: the file after the call and the boolean it returns.
\* "ok" writes the document; "fail_early" raises in makedirs or open and
\* leaves the file alone; "fail_write" raises after open(..., 'w') has
\* truncated the file.
SaveOutcomes == {"ok", "fail_early", "fail_write"}

save_settings(f, data, outcome) ==
  CASE outcome = "ok" -> [file |-> FileJson(data), saved |-> TRUE]
    [] outcome = "fail_early" -> [file |-> f, saved |-> FALSE]
    [] OTHER -> [file |-> FileCorrupt, saved |-> FALSE]

\* Body of get_settings: the flag reported for file state f (always 200).
get_settings_FailClosed(f) ==
  LET g == DictGet(load_settings(f))
      r == SettingsResponse(g.v)
  IN IF g.raised \/ r.raised THEN FALSE ELSE r.open

get_settings(f) ==
  LET g == DictGet(load_settings(f))
      r == SettingsResponse(g.v)
  IN IF g.raised \/ r.raised THEN TRUE ELSE r.open

\* Body of get_registration_status: the JSON literal reported for f.
get_registration_status(f) ==
  LET g == DictGet(load_settings(f))
  IN IF g.raised THEN "true" ELSE g.v

BoolLiteral(b) == IF b THEN "true" ELSE "false"

\* Body of update_settings for request field req ("none" when omitted).
RequestFields == {"none", "true", "false"}

update_settings(f, req, outcome) ==
  LET loaded == load_settings(f)
      set == IF req # "none" THEN DictSet(loaded, req) ELSE [raised |-> FALSE, d |-> loaded]
      sv == save_settings(f, set.d, outcome)
      g == DictGet(set.d)
      r == SettingsResponse(g.v)
  IN IF set.raised THEN [file |-> f, status |-> 500, open |-> TRUE, saved |-> FALSE]
     ELSE IF ~sv.saved THEN [file |-> sv.file, status |-> 500, open |-> TRUE, saved |-> FALSE]
     ELSE IF g.raised \/ r.raised THEN [file |-> sv.file, status |-> 500, open |-> TRUE, saved |-> TRUE]
     ELSE [file |-> sv.file, status |-> 200, open |-> r.open, saved |-> TRUE]


(***************************************************************************)
(* The remote document store (Appwrite) and its client.  A call returns or *)
(* raises; an exception is known to the handlers only through str(e).      *)
(***************************************************************************)
Ids == {"r1"}
StoredStatuses == {"absent", "pending", "approved", "rejected", "legacy"}
ValidStatuses == {"pending", "approved", "rejected"}

MsgSearchIndex == <<"S","e","a","r","c","h"," ","i","n","d","e","x"," ","m","i","s","s","i","n","g">>
MsgTimeout == <<"T","i","m","e","o","u","t">>
MsgHostNotFound == <<"H","o","s","t"," ","N","o","t"," ","F","o","u","n","d">>
MsgDocNotFound == <<"D","o","c","u","m","e","n","t"," ","n","o","t"," ","f","o","u","n","d">>
MsgCouldNotBeFound == <<"c","o","u","l","d"," ","n","o","t"," ","b","e"," ","f","o","u","n","d">>
MsgError404 == <<"E","r","r","o","r"," ","4","0","4">>
MsgInvalidKey == <<"I","n","v","a","l","i","d"," ","k","e","y">>
MsgSearchEndpoint == <<"S","e","a","r","c","h"," ","h","o","s","t"," ","u","n","s","e","t">>

Err(kind, msg) == [kind |-> kind, msg |-> msg]
NoError == Err("-", <<>>)

\* Failures of a store call that are not "document not found".
RemoteErrors ==
  {Err("Service", MsgSearchIndex), Err("Network", MsgTimeout), Err("Network", MsgHostNotFound)}

\* Failures by which the store reports a missing document id.
NotFoundErrors ==
  {Err("NotFound", MsgDocNotFound), Err("NotFound", MsgError404), Err("NotFound", MsgCouldNotBeFound)}

\* get_appwrite_client(): returns the client or raises.
ClientErrors == {Err("Client", MsgInvalidKey), Err("Client", MsgSearchEndpoint)}
ClientOutcomes == {NoError} \cup ClientErrors

\* What list_documents can return: the documents of the page and the
\* store's count of matches.
ListResults == {[documents |-> <<>>, total |-> 0], [documents |-> <<"r1">>, total |-> 1]}

ListOk(r) == [ok |-> TRUE, documents |-> r.documents, total |-> r.total, err |-> NoError]
ListFail(e) == [ok |-> FALSE, documents |-> <<>>, total |-> 0, err |-> e]
ListOutcomes == {ListOk(r) : r \in ListResults} \cup {ListFail(e) : e \in RemoteErrors}

\* Outcomes of get_document / update_document / delete_document on id,
\* given the stored documents d.
DocOutcomes(d, id) ==
  (IF d[id] # "absent" THEN {NoError} ELSE NotFoundErrors) \cup RemoteErrors

\* One call into the store, as the handler issues it.
ListCall(status, search, limit, offset, order) ==
  [fn |-> "list_documents", id |-> "-", status |-> status, search |-> search,
   limit |-> limit, offset |-> offset, order |-> order]
DocCall(fn, id, status) ==
  [fn |-> fn, id |-> id, status |-> status, search |-> "-",
   limit |-> -1, offset |-> -1, order |-> "-"]

(***************************************************************************)
(* admin.py handlers as functions of the request and of what the           *)
(* environment answers.                                                    *)
(***************************************************************************)
ADMIN_USERNAME == "admin"
ADMIN_PASSWORD == "0000"

admin_login(username, password) ==
  IF username = ADMIN_USERNAME /\ password = ADMIN_PASSWORD THEN 200 ELSE 401

\* str(e) mentions a search failure / a missing document.
IsSearchError_CaseSensitive(e) == Contains(StrSearch, e.msg)

\* Both tests are tabulated once over the exceptions of the model.
Errors == RemoteErrors \cup NotFoundErrors \cup ClientErrors \cup {NoError}

\* "search" in str(e).lower()
SearchErrors == {x \in Errors : Contains(StrSearch, Lower(x.msg))}

\* "404" in str(e) or "not found" in str(e).lower()
NotFoundLookingErrors ==
  {x \in Errors : Contains(Str404, x.msg) \/ Contains(StrNotFound, Lower(x.msg))}

IsSearchError(e) == e \in SearchErrors
IsNotFoundError(e) == e \in NotFoundLookingErrors

\* Status code of the except branch shared by get / update / delete.
DocErrorStatus(e) == IF IsNotFoundError(e) THEN 404 ELSE 500

\* (page - 1) * limit
Offset(page, limit) == (page - 1) * limit

\* The first list_documents call of list_registrations: the status filter
\* when it is one of the three statuses, the search filter when a search
\* term is given, then limit, offset and descending creation order.
FirstListCall(page, limit, search, status) ==
  ListCall(IF status \in ValidStatuses THEN status ELSE "-",
           IF search \notin {"none", ""} THEN search ELSE "-",
           limit, Offset(page, limit), "desc")

\* The fallback call: limit and offset only.
FallbackListCall_FirstPage(page, limit) == ListCall("-", "-", limit, 0, "-")

FallbackListCall(page, limit) == ListCall("-", "-", limit, Offset(page, limit), "-")

ListResponse(status, o, page, limit, e, cs) ==
  [status |-> status, data |-> o.documents, total |-> o.total,
   page |-> page, limit |-> limit, detail |-> e, calls |-> cs]

\* list_registrations: cl is what get_appwrite_client does, o1 and o2 what
\* the store does on the first and on the fallback call.
list_registrations(page, limit, search, status, cl, o1, o2) ==
  LET c1 == FirstListCall(page, limit, search, status)
      c2 == FallbackListCall(page, limit)
      e == IF cl # NoError THEN cl ELSE o1.err
  IN IF cl = NoError /\ o1.ok
       THEN ListResponse(200, o1, page, limit, NoError, <<c1>>)
     ELSE IF ~IsSearchError(e)
       THEN ListResponse(500, ListFail(e), page, limit, e, IF cl = NoError THEN <<c1>> ELSE <<>>)
     ELSE IF cl # NoError
       \* the name appwrite was never bound: the fallback raises at once
       THEN ListResponse(500, ListFail(e), page, limit, e, <<>>)
     ELSE IF o2.ok
       THEN ListResponse(200, o2, page, limit, NoError, <<c1, c2>>)
     ELSE ListResponse(500, ListFail(e), page, limit, e, <<c1, c2>>)

\* get_registration
get_registration(id, cl, o) ==
  LET e == IF cl # NoError THEN cl ELSE o
      cs == IF cl = NoError THEN <<DocCall("get_document", id, "-")>> ELSE <<>>
  IN IF e = NoError THEN [status |-> 200, err |-> NoError, calls |-> cs]
     ELSE [status |-> DocErrorStatus(e), err |-> e, calls |-> cs]

\* update_registration_status: written is TRUE when the store applied it.
update_registration_status_Unchecked(id, status, cl, o) ==
  LET e == IF cl # NoError THEN cl ELSE o
      cs == IF cl = NoError THEN <<DocCall("update_document", id, status)>> ELSE <<>>
  IN IF e = NoError
       THEN [status |-> 200, err |-> NoError, calls |-> cs, written |-> TRUE]
     ELSE [status |-> DocErrorStatus(e), err |-> e, calls |-> cs, written |-> FALSE]

update_registration_status(id, status, cl, o) ==
  LET e == IF cl # NoError THEN cl ELSE o
      cs == IF cl = NoError THEN <<DocCall("update_document", id, status)>> ELSE <<>>
  IN IF status \notin ValidStatuses
       THEN [status |-> 400, err |-> NoError, calls |-> <<>>, written |-> FALSE]
     ELSE IF e = NoError
       THEN [status |-> 200, err |-> NoError, calls |-> cs, written |-> TRUE]
     ELSE [status |-> DocErrorStatus(e), err |-> e, calls |-> cs, written |-> FALSE]

\* delete_registration
delete_registration(id, cl, o) ==
  LET e == IF cl # NoError THEN cl ELSE o
      cs == IF cl = NoError THEN <<DocCall("delete_document", id, "-")>> ELSE <<>>
  IN IF e = NoError THEN [status |-> 200, err |-> NoError, calls |-> cs]
     ELSE [status |-> DocErrorStatus(e), err |-> e, calls |-> cs]

\* get_stats: outs[i] is what the store answers to the i-th count query
\* (a count, or -1 when the call raises).
StatsFilters == <<"-", "pending", "approved", "rejected">>
StatsCall(i) == ListCall(StatsFilters[i], "-", 1, -1, "-")
CountOutcomes == -1..MaxCount

\* Number of count queries issued: up to and including the first that raises.
StatsIssued(outs) ==
  IF \E i \in 1..4 : outs[i] = -1
    THEN CHOOSE i \in 1..4 : outs[i] = -1 /\ \A j \in 1..(i - 1) : outs[j] # -1
    ELSE 4

StatsResponse(total, pending, approved, rejected) ==
  [total |-> total, pending |-> pending, approved |-> approved, rejected |-> rejected]

get_stats_Partial(cl, outs) ==
  LET n == IF cl # NoError THEN 0 ELSE StatsIssued(outs)
      failed == cl # NoError \/ \E i \in 1..4 : outs[i] = -1
      cs == [i \in 1..n |-> StatsCall(i)]
      read == [i \in 1..4 |-> IF cl = NoError /\ outs[i] # -1 THEN outs[i] ELSE 0]
  IN [status |-> 200, body |-> StatsResponse(read[1], read[2], read[3], read[4]),
      calls |-> cs, failed |-> failed]

get_stats(cl, outs) ==
  LET n == IF cl # NoError THEN 0 ELSE StatsIssued(outs)
      failed == cl # NoError \/ \E i \in 1..4 : outs[i] = -1
      cs == [i \in 1..n |-> StatsCall(i)]
  IN IF failed
       THEN [status |-> 200, body |-> StatsResponse(0, 0, 0, 0), calls |-> cs, failed |-> TRUE]
     ELSE [status |-> 200, body |-> StatsResponse(outs[1], outs[2], outs[3], outs[4]),
           calls |-> cs, failed |-> FALSE]


(***************************************************************************)
(* State.  file: the settings file.  docs: the status field of each        *)
(* registration held by the store ("absent": no such document).            *)
(* loggedIn: whether some admin_login request has succeeded so far (the    *)
(* handlers keep no session; this only records history).  calls: the store *)
(* calls made by the last request, in order.  resp: the last request and   *)
(* its response, with outs the store answers it consumed.  inflight: an    *)
(* update_settings request that has started and not yet answered, with    *)
(* its position pc, its request field, the document it is about to write  *)
(* and the file as it was when the request loaded it.                      *)
(***************************************************************************)
Idle == [pc |-> "idle", req |-> "none", data |-> JsonOther("-"), old |-> FileAbsent]

Usernames == {"admin", "root"}
Passwords == {"0000", "1234"}
Limits == {10, 20}
Searches == {"none", "x"}
StatusFilters == {"none", "pending", "bogus"}
RequestStatuses == {"pending", "approved", "rejected", "bogus"}

NoResponse == [op |-> "none", status |-> 0]

\* What the environment answers during one list_registrations request: the
\* client, the first call, the fallback call.  A call that is not made has
\* no answer (written NotCalled).
NotCalled == ListFail(NoError)

ListAnswers ==
  {<<cl, NotCalled, NotCalled>> : cl \in ClientErrors}
    \cup {<<NoError, o1, NotCalled>> : o1 \in {o \in ListOutcomes : o.ok \/ ~IsSearchError(o.err)}}
    \cup {<<NoError, o1, o2>> : o1 \in {o \in ListOutcomes : ~o.ok /\ IsSearchError(o.err)},
                                o2 \in ListOutcomes}

\* What the environment answers during one get_stats request: the client
\* and the four count queries; nothing is asked after the first failure.
StatsAnswers ==
  {<<cl, <<-1, -1, -1, -1>>>> : cl \in ClientErrors}
    \cup {<<NoError, outs>> : outs \in
            {s \in [1..4 -> CountOutcomes] :
               \A i \in 1..3 : s[i] = -1 => s[i + 1] = -1}}

Prefix(s, n) == [i \in 1..n |-> s[i]]

Init ==
  /\ file \in FileStates
  /\ docs \in [Ids -> StoredStatuses]
  /\ loggedIn = FALSE
  /\ inflight = Idle
  /\ calls = <<>>
  /\ resp = NoResponse

Login ==
  \E username \in Usernames, password \in Passwords :
    LET s == admin_login(username, password)
    IN /\ resp' = [op |-> "admin_login", status |-> s]
       /\ loggedIn' = (loggedIn \/ s = 200)
       /\ calls' = <<>>
       /\ UNCHANGED <<file, docs, inflight>>

ListRegistrations ==
  \E page \in 1..MaxPage, limit \in Limits, search \in Searches, status \in StatusFilters,
     a \in ListAnswers :
    LET cl == a[1]
        o1 == a[2]
        o2 == a[3]
        r == list_registrations(page, limit, search, status, cl, o1, o2)
    IN /\ resp' = [op |-> "list_registrations", status |-> r.status,
                   data |-> r.data, total |-> r.total, page |-> r.page, limit |-> r.limit,
                   detail |-> r.detail,
                   req |-> [page |-> page, limit |-> limit, search |-> search, status |-> status],
                   outs |-> Prefix(<<o1, o2>>, Len(r.calls))]
       /\ calls' = r.calls
       /\ UNCHANGED <<file, docs, loggedIn, inflight>>

GetRegistration ==
  \E id \in Ids, cl \in ClientOutcomes :
    \E o \in (IF cl = NoError THEN DocOutcomes(docs, id) ELSE {NoError}) :
      LET r == get_registration(id, cl, o)
      IN /\ resp' = [op |-> "get_registration", status |-> r.status, detail |-> r.err,
                     id |-> id, doc |-> IF r.status = 200 THEN docs[id] ELSE "-",
                     outs |-> Prefix(<<o>>, Len(r.calls))]
         /\ calls' = r.calls
         /\ UNCHANGED <<file, docs, loggedIn, inflight>>

UpdateRegistrationStatus ==
  \E id \in Ids, status \in RequestStatuses, cl \in ClientOutcomes :
    \E o \in (IF cl = NoError THEN DocOutcomes(docs, id) ELSE {NoError}) :
      LET r == update_registration_status(id, status, cl, o)
      IN /\ resp' = [op |-> "update_registration_status", status |-> r.status, detail |-> r.err,
                     id |-> id, req |-> status, outs |-> Prefix(<<o>>, Len(r.calls))]
         /\ calls' = r.calls
         /\ docs' = IF r.written THEN [docs EXCEPT ![id] = status] ELSE docs
         /\ UNCHANGED <<file, loggedIn, inflight>>

DeleteRegistration ==
  \E id \in Ids, cl \in ClientOutcomes :
    \E o \in (IF cl = NoError THEN DocOutcomes(docs, id) ELSE {NoError}) :
      LET r == delete_registration(id, cl, o)
      IN /\ resp' = [op |-> "delete_registration", status |-> r.status, detail |-> r.err,
                     id |-> id, outs |-> Prefix(<<o>>, Len(r.calls))]
         /\ calls' = r.calls
         /\ docs' = IF r.status = 200 THEN [docs EXCEPT ![id] = "absent"] ELSE docs
         /\ UNCHANGED <<file, loggedIn, inflight>>

GetStats ==
  \E a \in StatsAnswers :
    LET cl == a[1]
        outs == a[2]
        r == get_stats(cl, outs)
    IN /\ resp' = [op |-> "get_stats", status |-> r.status, body |-> r.body,
                   failed |-> r.failed, outs |-> Prefix(outs, Len(r.calls))]
       /\ calls' = r.calls
       /\ UNCHANGED <<file, docs, loggedIn, inflight>>

GetSettings ==
  /\ resp' = [op |-> "get_settings", status |-> 200, open |-> get_settings(file)]
  /\ calls' = <<>>
  /\ UNCHANGED <<file, docs, loggedIn, inflight>>

UpdateSettings ==
  \E req \in RequestFields, outcome \in SaveOutcomes :
    LET r == update_settings(file, req, outcome)
    IN /\ resp' = [op |-> "update_settings", status |-> r.status, open |-> r.open,
                   req |-> req, saved |-> r.saved]
       /\ file' = r.file
       /\ calls' = <<>>
       /\ UNCHANGED <<docs, loggedIn, inflight>>

GetRegistrationStatus ==
  /\ resp' = [op |-> "get_registration_status", status |-> 200,
              value |-> get_registration_status(file)]
  /\ calls' = <<>>
  /\ UNCHANGED <<file, docs, loggedIn, inflight>>

(***************************************************************************)
(* update_settings step by step, for requests served at the same time by   *)
(* another worker: load_settings and the field assignment, then            *)
(* open(SETTINGS_FILE, 'w'), which empties the file, then json.dump and    *)
(* the close that flushes the text.  Nothing in the code keeps a reader    *)
(* from running between two of these steps.                                *)
(***************************************************************************)
UpdateSettingsLoad ==
  /\ inflight.pc = "idle"
  /\ \E req \in RequestFields :
       LET loaded == load_settings(file)
           set == IF req # "none" THEN DictSet(loaded, req)
                  ELSE [raised |-> FALSE, d |-> loaded]
       IN IF set.raised
            THEN /\ resp' = [op |-> "update_settings", status |-> 500, open |-> TRUE,
                             req |-> req, saved |-> FALSE]
                 /\ UNCHANGED inflight
            ELSE /\ inflight' = [pc |-> "loaded", req |-> req, data |-> set.d, old |-> file]
                 /\ UNCHANGED resp
  /\ calls' = <<>>
  /\ UNCHANGED <<file, docs, loggedIn>>

UpdateSettingsOpen ==
  /\ inflight.pc = "loaded"
  /\ \E opened \in BOOLEAN :
       IF opened
         THEN /\ file' = FileCorrupt
              /\ inflight' = [inflight EXCEPT !.pc = "opened"]
              /\ UNCHANGED resp
         ELSE /\ resp' = [op |-> "update_settings", status |-> 500, open |-> TRUE,
                          req |-> inflight.req, saved |-> FALSE]
              /\ inflight' = Idle
              /\ UNCHANGED file
  /\ UNCHANGED <<docs, loggedIn, calls>>

UpdateSettingsClose ==
  /\ inflight.pc = "opened"
  /\ \E written \in BOOLEAN :
       LET g == DictGet(inflight.data)
           r == SettingsResponse(g.v)
       IN IF written
            THEN /\ file' = FileJson(inflight.data)
                 /\ resp' = [op |-> "update_settings",
                             status |-> IF g.raised \/ r.raised THEN 500 ELSE 200,
                             open |-> IF g.raised \/ r.raised THEN TRUE ELSE r.open,
                             req |-> inflight.req, saved |-> TRUE]
            ELSE /\ file' = FileCorrupt
                 /\ resp' = [op |-> "update_settings", status |-> 500, open |-> TRUE,
                             req |-> inflight.req, saved |-> FALSE]
  /\ inflight' = Idle
  /\ UNCHANGED <<docs, loggedIn, calls>>

Next ==
  \/ Login
  \/ ListRegistrations
  \/ GetRegistration
  \/ UpdateRegistrationStatus
  \/ DeleteRegistration
  \/ GetStats
  \/ GetSettings
  \/ UpdateSettings
  \/ GetRegistrationStatus
  \/ UpdateSettingsLoad
  \/ UpdateSettingsOpen
  \/ UpdateSettingsClose

Spec == Init /\ [][Next]_vars

(***************************************************************************)
(* The handlers that work on one document, and the dashboard counts, over  *)
(* every content of the store.                                             *)
(***************************************************************************)
InitAdmin ==
  /\ file = FileAbsent
  /\ docs \in [Ids -> StoredStatuses]
  /\ loggedIn = FALSE
  /\ inflight = Idle
  /\ calls = <<>>
  /\ resp = NoResponse

NextAdmin ==
  \/ GetRegistration
  \/ UpdateRegistrationStatus
  \/ DeleteRegistration
  \/ GetStats

SpecAdmin == InitAdmin /\ [][NextAdmin]_vars

(***************************************************************************)
(* The listing handler alone, over every request and every answer of the   *)
(* store.                                                                  *)
(***************************************************************************)
InitList ==
  /\ file = FileAbsent
  /\ docs = [id \in Ids |-> "pending"]
  /\ loggedIn = FALSE
  /\ inflight = Idle
  /\ calls = <<>>
  /\ resp = NoResponse

NextList == ListRegistrations

SpecList == InitList /\ [][NextList]_vars

(***************************************************************************)
(* The settings handlers alone, from every state of the settings file.     *)
(***************************************************************************)
InitSettings ==
  /\ file \in FileStates
  /\ docs = [id \in Ids |-> "absent"]
  /\ loggedIn = FALSE
  /\ inflight = Idle
  /\ calls = <<>>
  /\ resp = NoResponse

NextSettings ==
  \/ GetSettings
  \/ UpdateSettings
  \/ GetRegistrationStatus

SpecSettings == InitSettings /\ [][NextSettings]_vars

(***************************************************************************)
(* Login together with the endpoints the test suite expects to be closed   *)
(* to unauthenticated callers.                                             *)
(***************************************************************************)
InitAuth ==
  /\ file = FileJson(JsonObject(TRUE, "false"))
  /\ docs = [id \in Ids |-> "pending"]
  /\ loggedIn = FALSE
  /\ inflight = Idle
  /\ calls = <<>>
  /\ resp = NoResponse

NextAuth ==
  \/ Login
  \/ ListRegistrations
  \/ GetStats
  \/ UpdateSettings

SpecAuth == InitAuth /\ [][NextAuth]_vars


(***************************************************************************)
(* The settings reads running while an update_settings request is in       *)
(* flight, from every state of the settings file.                          *)
(***************************************************************************)
InitConcurrent ==
  /\ file \in FileStates
  /\ docs = [id \in Ids |-> "absent"]
  /\ loggedIn = FALSE
  /\ inflight = Idle
  /\ calls = <<>>
  /\ resp = NoResponse

NextConcurrent ==
  \/ GetSettings
  \/ GetRegistrationStatus
  \/ UpdateSettingsLoad
  \/ UpdateSettingsOpen
  \/ UpdateSettingsClose

SpecConcurrent == InitConcurrent /\ [][NextConcurrent]_vars

(***************************************************************************)
(* Properties.                                                             *)
(***************************************************************************)
IsList == resp.op = "list_registrations"

\* The first list call of the last request failed and its message mentions
\* "search".
FirstCallSearchFailed ==
  /\ IsList
  /\ Len(resp.outs) >= 1
  /\ ~resp.outs[1].ok
  /\ Contains(<<"s","e","a","r","c","h">>, Lower(resp.outs[1].err.msg))

PaginationOnly(c, page, limit) ==
  /\ c.fn = "list_documents"
  /\ c.status = "-"
  /\ c.search = "-"
  /\ c.limit = limit
  /\ c.offset = (page - 1) * limit

\* C1 as stated: a list request with a search term whose first store call
\* fails with a search error is answered 200 with the documents of a
\* pagination-only second call, whatever that second call does.
C1_FallbackAlways200 ==
  (FirstCallSearchFailed /\ resp.req.search # "none") =>
    /\ Len(calls) = 2
    /\ PaginationOnly(calls[2], resp.req.page, resp.req.limit)
    /\ resp.status = 200
    /\ resp.data = resp.outs[2].documents

\* C1 amended: after a search error on the first call a pagination-only
\* second call is made; if it succeeds the response is 200 with its
\* documents and total, and if it fails too the response is 500 carrying
\* the message of the first (search) error.
C1_FallbackThenSecondDecides ==
  (FirstCallSearchFailed /\ resp.req.search # "none") =>
    /\ Len(calls) = 2
    /\ PaginationOnly(calls[2], resp.req.page, resp.req.limit)
    /\ resp.outs[2].ok =>
         /\ resp.status = 200
         /\ resp.data = resp.outs[2].documents
         /\ resp.total = resp.outs[2].total
    /\ ~resp.outs[2].ok =>
         /\ resp.status = 500
         /\ resp.detail = resp.outs[1].err

C1_Witness ==
  /\ FirstCallSearchFailed
  /\ resp.req.search = "x"
  /\ Len(calls) = 2
  /\ resp.outs[2].ok
  /\ resp.status = 200
  /\ resp.data = <<"r1">>

\* C2: an update request whose status is not pending, approved or rejected
\* is answered 400 without any store call, and every update_document call
\* that reaches the store carries one of those three statuses.
C2_InvalidStatusNeverReachesStore ==
  /\ (resp.op = "update_registration_status"
        /\ resp.req \notin {"pending", "approved", "rejected"}) =>
       (resp.status = 400 /\ calls = <<>>)
  /\ \A i \in 1..Len(calls) :
       calls[i].fn = "update_document" => calls[i].status \in {"pending", "approved", "rejected"}

C2_Witness ==
  /\ resp.op = "update_registration_status"
  /\ resp.req = "bogus"
  /\ resp.status = 400
  /\ calls = <<>>

\* C3: get_stats always answers 200, and when the client or any of the four
\* count queries failed the four counts of the answer are all zero.
StatsFailed ==
  /\ resp.op = "get_stats"
  /\ (Len(resp.outs) = 0 \/ resp.outs[Len(resp.outs)] = -1)

C3_StatsFailSoftZeros ==
  /\ resp.op = "get_stats" => resp.status = 200
  /\ StatsFailed =>
       resp.body = [total |-> 0, pending |-> 0, approved |-> 0, rejected |-> 0]

C3_Witness ==
  /\ StatsFailed
  /\ Len(resp.outs) = 3
  /\ resp.outs[1] > 0
  /\ resp.outs[2] > 0
  /\ resp.body.total = 0
  /\ resp.body.pending = 0

\* C4 as stated: for get, update (valid status) and delete, a store failure
\* is answered 404 when the store reports the id as not found and 500 for
\* every other store failure.
C4_NotFoundIff404 ==
  (/\ resp.op \in {"get_registration", "update_registration_status", "delete_registration"}
   /\ Len(resp.outs) = 1
   /\ resp.outs[1] # NoError) =>
     /\ resp.outs[1].kind = "NotFound" => resp.status = 404
     /\ resp.outs[1].kind # "NotFound" => resp.status = 500

\* C5 as stated: a successful update with registration_open=false makes
\* get_settings return false, and an update without the field leaves what
\* get_settings returns as it was before the update.
C5_RoundTripAndPartialUpdate ==
  [][resp'.op = "update_settings" =>
       /\ (resp'.req = "false" /\ resp'.status = 200) => get_settings(file') = FALSE
       /\ resp'.req = "none" => get_settings(file') = get_settings(file)]_vars

\* The file is a JSON object whose registration_open is one of lits.
FileHasFlagIn(lits) ==
  /\ file.st = "json"
  /\ file.json.ty = "object"
  /\ file.json.has
  /\ file.json.v \in lits

\* C6 as stated: get_settings answers 200 with true whenever the file is
\* not a JSON object with a boolean registration_open.
C6_DefaultTrueUnlessBoolean ==
  (resp.op = "get_settings" /\ ~FileHasFlagIn({"true", "false"})) =>
    (resp.status = 200 /\ resp.open = TRUE)

\* C6 amended: get_settings always answers 200, and answers true whenever
\* the file is not a JSON object whose registration_open is a boolean or a
\* value the response model coerces to one (0, 1, "no", "yes").
C6_DefaultTrueUnlessCoercible ==
  /\ resp.op = "get_settings" => resp.status = 200
  /\ (resp.op = "get_settings"
        /\ ~FileHasFlagIn({"true", "false", "0", "1", "'no'", "'yes'"})) =>
       resp.open = TRUE

C6_Witness ==
  /\ resp.op = "get_settings"
  /\ file = FileCorrupt
  /\ resp.status = 200
  /\ resp.open = TRUE

\* C7 as stated: after an update whose save_settings reported success the
\* file is a JSON object that contains the registration_open key.
C7_SavedFileHasKey ==
  (resp.op = "update_settings" /\ resp.saved) =>
    FileHasFlagIn(JsonLiterals)

\* C8 as stated: while no login has succeeded, a request to the
\* registrations list, the stats or the settings PATCH is answered 401, 403
\* or 404, and the PATCH leaves the settings file as it was.
C8_AdminEndpointsRequireLogin ==
  [][(resp'.op \in {"list_registrations", "get_stats", "update_settings"} /\ ~loggedIn') =>
       (resp'.status \in {401, 403, 404} /\ file' = file)]_vars

\* C9: a list request makes at most two store calls; the first carries the
\* status filter (when valid), the search filter (when given), the limit
\* and offset (page-1)*limit; a second call happens only after a search
\* error on the first and carries the same limit and offset and no filter;
\* a first failure that is not a search error, or a failed second call,
\* gives 500.
C9_TwoAttemptProtocol ==
  IsList =>
    /\ Len(calls) <= 2
    /\ Len(calls) >= 1 =>
         /\ calls[1].fn = "list_documents"
         /\ calls[1].status =
              (IF resp.req.status \in {"pending", "approved", "rejected"}
                 THEN resp.req.status ELSE "-")
         /\ calls[1].search = (IF resp.req.search = "none" THEN "-" ELSE resp.req.search)
         /\ calls[1].limit = resp.req.limit
         /\ calls[1].offset = (resp.req.page - 1) * resp.req.limit
    /\ Len(calls) = 2 =>
         /\ FirstCallSearchFailed
         /\ PaginationOnly(calls[2], resp.req.page, resp.req.limit)
         /\ calls[2].limit = calls[1].limit
         /\ calls[2].offset = calls[1].offset
    /\ (Len(resp.outs) >= 1 /\ ~resp.outs[1].ok /\ ~FirstCallSearchFailed) => resp.status = 500
    /\ (Len(resp.outs) = 2 /\ ~resp.outs[2].ok) => resp.status = 500

C9_Witness ==
  /\ IsList
  /\ resp.req.page = 3
  /\ resp.req.limit = 20
  /\ Len(calls) = 2
  /\ calls[1].offset = 40
  /\ calls[1].status = "pending"
  /\ calls[1].search = "x"
  /\ calls[2].offset = 40
  /\ resp.status = 200

\* C10 as stated: for every state of the settings file the public
\* registration-status endpoint reports the same registration_open value
\* as get_settings.
C10_PublicStatusEqualsGetSettings ==
  resp.op = "get_registration_status" =>
    resp.value = BoolLiteral(get_settings(file))


\* C11 as stated: a get_settings or get_registration_status request served
\* while an update_settings request is in flight returns the flag stored
\* before that update or the flag that update stores.
C11_ReadersSeeOldOrNew ==
  [][(inflight.pc # "idle" /\ inflight' = inflight) =>
       /\ resp'.op = "get_settings" =>
            resp'.open \in {get_settings(inflight.old),
                            get_settings(FileJson(inflight.data))}
       /\ resp'.op = "get_registration_status" =>
            resp'.value \in {get_registration_status(inflight.old),
                             get_registration_status(FileJson(inflight.data))}]_vars

====
